---------------------------- MODULE Spec2Model ----------------------------
(***************************************************************************)
(* A model of src/agents/coder/coder.py (class Coder).                     *)
(*                                                                         *)
(* A Python str is a sequence of characters; a character is a one-letter   *)
(* TLA+ string, except the two characters a TLA+ string literal cannot     *)
(* hold, which are the atoms NL (the line feed) and BT (the backtick).     *)
(* What a call that may raise yields is Ok(v), the value returned, or       *)
(* Raise(e), the exception raised.                                         *)
(***************************************************************************)
EXTENDS Naturals, Integers, Sequences, FiniteSets, TLC

VARIABLES
    op,         \* the operation applied in the last step ("init" before any)
    arg,        \* the argument the operations of the step read
    local,      \* the locals of the last call when it returned or raised
    project,    \* project_name, as the caller gives it
    fs,         \* the filesystem below self.project_dir
    store,      \* AgentState: the project's snapshots, oldest first
    script,     \* the responses self.llm.inference has still to return
    calls       \* the prompts self.llm.inference was invoked with

vars == <<op, arg, local, project, fs, store, script, calls>>

----------------------------------------------------------------------------
(* Characters and the string literals of the source.                       *)

NL == "LF"
BT == "BT"

\* what str.strip() with no argument removes
Whitespace == {" ", NL, "TAB", "CR"}

\* "~~~" (lines 58, 59, 117)
Tildes == <<"~", "~", "~">>

\* "File: " (line 68)
FilePrefix == <<"F", "i", "l", "e", ":", " ">>

\* "```" (lines 74, 116)
Fence == <<BT, BT, BT>>

\* current_file = None (line 63): no string, and falsy
None == <<"None">>

\* a value returned, and an exception raised
Ok(v) == [kind |-> "ok", val |-> v, exc |-> "none"]

Raise(e) == [kind |-> "raise", val |-> <<>>, exc |-> e]

----------------------------------------------------------------------------
(* The str methods the source calls.                                       *)

\* s[i:] of Python, i a 0-based offset in 0..len(s)
Drop(s, i) == SubSeq(s, i + 1, Len(s))

\* s[:i] of Python, i a 0-based offset in 0..len(s)
Take(s, i) == SubSeq(s, 1, i)

\* s.startswith(p)
startswith(s, p) == Len(s) >= Len(p) /\ SubSeq(s, 1, Len(p)) = p

RECURSIVE lstrip(_)
lstrip(s) ==
    IF s # <<>> /\ Head(s) \in Whitespace THEN lstrip(Tail(s)) ELSE s

RECURSIVE rstrip(_)
rstrip(s) ==
    IF s # <<>> /\ s[Len(s)] \in Whitespace THEN rstrip(Take(s, Len(s) - 1)) ELSE s

\* s.strip()
strip(s) == rstrip(lstrip(s))

\* s.find(sub) from offset i on: the lowest 0-based offset, or -1
RECURSIVE findFrom(_, _, _)
findFrom(s, sub, i) ==
    IF i + Len(sub) > Len(s) THEN -1
    ELSE IF SubSeq(s, i + 1, i + Len(sub)) = sub THEN i
    ELSE findFrom(s, sub, i + 1)

find(s, sub) == findFrom(s, sub, 0)

\* s.rfind(sub): the highest 0-based offset, or -1; scans down from offset i
RECURSIVE rfindFrom(_, _, _)
rfindFrom(s, sub, i) ==
    IF i < 0 THEN -1
    ELSE IF SubSeq(s, i + 1, i + Len(sub)) = sub THEN i
    ELSE rfindFrom(s, sub, i - 1)

rfind(s, sub) == rfindFrom(s, sub, Len(s) - Len(sub))

\* s[:k] for any integer k: a negative k counts from the end
slice_to(s, k) ==
    IF k >= 0 THEN Take(s, IF k > Len(s) THEN Len(s) ELSE k)
    ELSE Take(s, IF Len(s) + k < 0 THEN 0 ELSE Len(s) + k)

\* split1 cutting at the last occurrence of sep, as s.rsplit(sep, 1) does
split1_last(s, sep) ==
    LET i == rfind(s, sep)
    IN  IF i < 0 THEN <<s>> ELSE <<Take(s, i), Drop(s, i + Len(sep))>>

\* s.split(sep, 1): one piece when sep does not occur, else two
split1(s, sep) ==
    LET i == find(s, sep)
    IN  IF i < 0 THEN <<s>> ELSE <<Take(s, i), Drop(s, i + Len(sep))>>

\* s.split(sep): every piece, sep a non-empty string
RECURSIVE split(_, _)
split(s, sep) ==
    LET i == find(s, sep)
    IN  IF i < 0 THEN <<s>>
        ELSE <<Take(s, i)>> \o split(Drop(s, i + Len(sep)), sep)

\* sep.join(parts)
RECURSIVE join(_, _)
join(sep, parts) ==
    IF parts = <<>> THEN <<>>
    ELSE IF Len(parts) = 1 THEN parts[1]
    ELSE parts[1] \o sep \o join(sep, Tail(parts))

----------------------------------------------------------------------------
(* validate_response (lines 45-82).                                        *)

\* AfterOpening yielding the empty text when ~~~ does not occur, as
\* response.partition("~~~")[2] does
AfterOpening_partition(response) ==
    LET parts == split1(response, Tildes)
    IN  IF Len(parts) < 2 THEN Ok(<<>>) ELSE Ok(parts[2])

\* line 58: response.split("~~~", 1)[1]
AfterOpening(response) ==
    LET parts == split1(response, Tildes)
    IN  IF Len(parts) < 2 THEN Raise("IndexError") ELSE Ok(parts[2])

\* line 59: response[:response.rfind("~~~")]
BeforeClosing(response) == slice_to(response, rfind(response, Tildes))

\* FileName refusing a line without a second backtick
FileName_strict(line) ==
    LET parts == split(line, <<BT>>)
    IN  IF Len(parts) < 3 THEN Raise("IndexError") ELSE Ok(strip(parts[2]))

\* line 71: line.split("`")[1].strip()
FileName(line) ==
    LET parts == split(line, <<BT>>)
    IN  IF Len(parts) < 2 THEN Raise("IndexError") ELSE Ok(strip(parts[2]))

\* lines 69-70, 79-80: the truthiness of current_file and current_code
Truthy(current_file, current_code) ==
    current_file # None /\ current_file # <<>> /\ current_code # <<>>

\* {"file": current_file, "code": "\n".join(current_code)}
CodeFile(current_file, current_code) ==
    [file |-> current_file, code |-> join(<<NL>>, current_code)]

\* lines 62-65: the locals of the scan before the first line
ScanInit ==
    [result |-> <<>>, current_file |-> None, current_code |-> <<>>,
     code_block |-> FALSE, raised |-> FALSE]

\* AppendCode keeping only the lines inside a fenced block
AppendCode_fenced(st, line) ==
    IF st.code_block THEN [st EXCEPT !.current_code = Append(@, line)] ELSE st

\* line 77: current_code.append(line)
AppendCode(st, line) == [st EXCEPT !.current_code = Append(@, line)]

\* lines 68-77: one turn of the loop
ScanLine(st, line) ==
    IF st.raised THEN st
    ELSE IF startswith(line, FilePrefix) THEN
        LET emitted == IF Truthy(st.current_file, st.current_code)
                       THEN Append(st.result, CodeFile(st.current_file, st.current_code))
                       ELSE st.result
            name == FileName(line)
        IN  IF name.kind = "raise"
            THEN [st EXCEPT !.result = emitted, !.raised = TRUE]
            ELSE [st EXCEPT !.result = emitted, !.current_file = name.val,
                            !.current_code = <<>>, !.code_block = FALSE]
    ELSE IF startswith(line, Fence) THEN [st EXCEPT !.code_block = ~@]
    ELSE AppendCode(st, line)

\* lines 67-77: the loop over response.split("\n")
RECURSIVE ScanLines(_, _)
ScanLines(st, lines) ==
    IF lines = <<>> THEN st ELSE ScanLines(ScanLine(st, Head(lines)), Tail(lines))

\* lines 62-82
Scan(body) ==
    LET st == ScanLines(ScanInit, split(body, <<NL>>))
    IN  IF st.raised THEN Raise("IndexError")
        ELSE IF Truthy(st.current_file, st.current_code)
        THEN Ok(Append(st.result, CodeFile(st.current_file, st.current_code)))
        ELSE Ok(st.result)

\* The locals of validate_response when it returns or raises: response after
\* line 56 (trimmed), after line 58 (opened), after line 60 (body), and what
\* the call yields (ret).
validate_locals(response) ==
    LET trimmed == strip(response)
        opened == AfterOpening(trimmed)
    IN  IF opened.kind = "raise"
        THEN [trimmed |-> trimmed, opened |-> opened, body |-> <<>>, ret |-> opened]
        ELSE LET body == strip(BeforeClosing(opened.val))
             IN  [trimmed |-> trimmed, opened |-> opened, body |-> body,
                  ret |-> Scan(body)]

validate_response(response) == validate_locals(response).ret

----------------------------------------------------------------------------
(* Responses of the language model: up to MaxLines lines, each one of the  *)
(* lines a response is made of, well formed or not, joined by line feeds.  *)

MaxLines == 5

DelimiterLine == Tildes                                    \* ~~~
InlineLine == <<"a">> \o Tildes                            \* a~~~
HeaderLine == FilePrefix \o <<BT, "f", BT, ":">>           \* File: `f`:
OneTickLine == FilePrefix \o <<BT, "g">>                   \* File: `g
NoTickLine == FilePrefix \o <<"h">>                        \* File: h
FenceLine == Fence                                         \* ```
CodeLine == <<"x", "y">>                                   \* xy
BlankLine == <<>>

LineSet ==
    {DelimiterLine, InlineLine, HeaderLine, OneTickLine, NoTickLine,
     FenceLine, CodeLine, BlankLine}

Responses ==
    {join(<<NL>>, ls) : ls \in UNION {[1..n -> LineSet] : n \in 1..MaxLines}}

----------------------------------------------------------------------------
(* SpecParse: validate_response applied to every response.                 *)

Idle ==
    /\ project = <<>>
    /\ fs = <<>>
    /\ store = <<>>
    /\ script = <<>>
    /\ calls = <<>>

InitParse ==
    /\ op = "init"
    /\ arg \in Responses
    /\ local = <<>>
    /\ Idle

ValidateResponse ==
    /\ op = "init"
    /\ op' = "validate_response"
    /\ local' = validate_locals(arg)
    /\ UNCHANGED <<arg, project, fs, store, script, calls>>

NextParse == ValidateResponse

SpecParse == InitParse /\ [][NextParse]_vars

----------------------------------------------------------------------------
(* What the claims about validate_response speak of, stated without the    *)
(* scanning code: offsets of occurrences, delimiter lines, header lines    *)
(* and the lines of a file's section.                                      *)

\* the 0-based offsets at which sub occurs in s
Offsets(s, sub) ==
    {i \in 0..(Len(s) - Len(sub)) : SubSeq(s, i + 1, i + Len(sub)) = sub}

Least(S) == CHOOSE m \in S : \A n \in S : m <= n

Greatest(S) == CHOOSE m \in S : \A n \in S : m >= n

RECURSIVE Ascending(_)
Ascending(S) ==
    IF S = {} THEN <<>> ELSE <<Least(S)>> \o Ascending(S \ {Least(S)})

\* the offsets of the lines of s that consist of exactly ~~~
DelimiterLineOffsets(s) ==
    {i \in Offsets(s, Tildes) :
        /\ i = 0 \/ s[i] = NL
        /\ i + 3 = Len(s) \/ s[i + 4] = NL}

\* the lines the scan of the last call read
ScannedLines == split(local.body, <<NL>>)

\* the indices of the `File: ` header lines
HeaderIdx(lines) == {i \in 1..Len(lines) : startswith(lines[i], FilePrefix)}

NotFence(line) == ~startswith(line, Fence)

\* the lines after header h up to the next header or the end, fences left out
SectionCode(lines, h) ==
    LET later == {i \in HeaderIdx(lines) : i > h}
        last == IF later = {} THEN Len(lines) ELSE Least(later) - 1
    IN  SelectSeq(SubSeq(lines, h + 1, last), NotFence)

\* a fence-free line of h's section that no fence line precedes
OutsideFence(lines, h) ==
    LET later == {i \in HeaderIdx(lines) : i > h}
        last == IF later = {} THEN Len(lines) ELSE Least(later) - 1
    IN  \E i, j \in (h + 1)..last :
            /\ i < j
            /\ NotFence(lines[i])
            /\ \A k \in (h + 1)..i : NotFence(lines[k])
            /\ ~NotFence(lines[j])

\* the text after the first backtick of a header line, up to the second
\* backtick or the end of the line, trimmed
HeaderName(line) ==
    LET ticks == Offsets(line, <<BT>>)
        first == Least(ticks)
        later == {t \in ticks : t > first}
    IN  strip(SubSeq(line, first + 2, IF later = {} THEN Len(line) ELSE Least(later)))

\* the headers whose file the scan returns, in order
Emitted(lines) ==
    Ascending({h \in HeaderIdx(lines) :
                 HeaderName(lines[h]) # <<>> /\ SectionCode(lines, h) # <<>>})

Validated == op = "validate_response"

----------------------------------------------------------------------------
C8_ContentIsSectionLines ==
    (Validated /\ local.ret.kind = "ok") =>
        LET lines == ScannedLines
            em == Emitted(lines)
            files == local.ret.val
        IN  /\ Len(files) = Len(em)
            /\ \A k \in 1..Len(em) :
                /\ files[k].code = join(<<NL>>, SectionCode(lines, em[k]))
                /\ \A i \in 1..Len(split(files[k].code, <<NL>>)) :
                       NotFence(split(files[k].code, <<NL>>)[i])

\* a returned file holds a line that lies before the opening fence
C8_LineOutsideFence ==
    /\ Validated
    /\ local.ret.kind = "ok"
    /\ \E k \in 1..Len(local.ret.val) :
           /\ OutsideFence(ScannedLines, Emitted(ScannedLines)[k])
           /\ local.ret.val[k].code # <<>>

C10_OnlyClosingDiscarded ==
    (Validated /\ local.opened.kind = "ok") =>
        LET rest == local.opened.val
            at == Offsets(rest, Tildes)
        IN  local.body = strip(IF at = {} THEN rest ELSE Take(rest, Greatest(at)))

----------------------------------------------------------------------------
(* response_to_markdown_prompt (lines 115-117).                            *)

\* MarkdownEntry with no space after "File:"
MarkdownEntry_noSpace(file) ==
    <<"F", "i", "l", "e", ":", BT>> \o file.file \o <<BT, ":", NL>> \o Fence \o <<NL>>
        \o file.code \o <<NL>> \o Fence

\* line 116: f"File: `{file['file']}`:\n```\n{file['code']}\n```"
MarkdownEntry(file) ==
    FilePrefix \o <<BT>> \o file.file \o <<BT, ":", NL>> \o Fence \o <<NL>>
        \o file.code \o <<NL>> \o Fence

\* lines 116-117
response_to_markdown_prompt(response) ==
    LET entries == [i \in 1..Len(response) |-> MarkdownEntry(response[i])]
    IN  Tildes \o <<NL>> \o join(<<NL>>, entries) \o <<NL>> \o Tildes

----------------------------------------------------------------------------
(* SpecRoundTrip: a list of files serialized, and the text parsed back.    *)

MaxFiles == 2

Paths ==
    {<<"a">>, <<"b">>, <<>>, <<" ", "a">>, <<"a", BT>>, <<"a", NL, "b">>}

Contents ==
    {<<"x">>, <<"x", NL, "y">>, <<>>, <<NL, "x", NL>>, Tildes,
     Fence, <<"x", NL>> \o Fence \o <<"y">>,
     FilePrefix \o <<"q">>, <<"x", NL>> \o FilePrefix \o <<BT, "q", BT>>}

CodeFiles == [file : Paths, code : Contents]

FileLists == UNION {[1..n -> CodeFiles] : n \in 0..MaxFiles}

InitRoundTrip ==
    /\ op = "init"
    /\ arg \in FileLists
    /\ local = <<>>
    /\ Idle

ResponseToMarkdownPrompt ==
    /\ op = "init"
    /\ op' = "response_to_markdown_prompt"
    /\ local' = [ret |-> Ok(response_to_markdown_prompt(arg))]
    /\ UNCHANGED <<arg, project, fs, store, script, calls>>

ValidateMarkdown ==
    /\ op = "response_to_markdown_prompt"
    /\ op' = "round_trip"
    /\ local' = validate_locals(local.ret.val)
    /\ UNCHANGED <<arg, project, fs, store, script, calls>>

NextRoundTrip == ResponseToMarkdownPrompt \/ ValidateMarkdown

SpecRoundTrip == InitRoundTrip /\ [][NextRoundTrip]_vars

\* files is non-empty, its paths differ pairwise and no content is empty
DistinctNonEmpty(files) ==
    /\ files # <<>>
    /\ \A i, j \in 1..Len(files) : files[i].file = files[j].file => i = j
    /\ \A i \in 1..Len(files) : files[i].code # <<>>

\* a path the header line gives back: not empty, no backtick, no line feed,
\* no whitespace at either end
PlainPath(path) ==
    /\ path # <<>>
    /\ strip(path) = path
    /\ \A i \in 1..Len(path) : path[i] \notin {BT, NL}

\* no line of code begins with ``` or with `File: `
PlainCode(code) ==
    \A i \in 1..Len(split(code, <<NL>>)) :
        /\ ~startswith(split(code, <<NL>>)[i], Fence)
        /\ ~startswith(split(code, <<NL>>)[i], FilePrefix)

(* C1 as claimed: for a non-empty list of files with pairwise distinct     *)
(* paths and non-empty content, parsing the serialized list returns the    *)
(* list: same order, paths and content.                                    *)
C1_RoundTrip ==
    (op = "round_trip" /\ DistinctNonEmpty(arg)) => local.ret = Ok(arg)

(* C1 amended: the same, for files whose path is not empty, has no         *)
(* backtick, no line feed and no whitespace at either end, and whose       *)
(* content has no line beginning with ``` or with `File: `.                *)
C1_RoundTripPlain ==
    (/\ op = "round_trip"
     /\ DistinctNonEmpty(arg)
     /\ \A i \in 1..Len(arg) : PlainPath(arg[i].file) /\ PlainCode(arg[i].code))
    => local.ret = Ok(arg)

\* two files, one of several lines and one holding ~~~, came back unchanged
C1_TwoFilesBack ==
    /\ op = "round_trip"
    /\ Len(arg) = 2
    /\ DistinctNonEmpty(arg)
    /\ \A i \in 1..Len(arg) : PlainPath(arg[i].file) /\ PlainCode(arg[i].code)
    /\ arg[1].code = <<NL, "x", NL>>
    /\ arg[2].code = Tildes
    /\ local.ret = Ok(arg)

----------------------------------------------------------------------------
(* The filesystem: the regular files, each with its content, and the       *)
(* directories, both named by the components of their absolute path. The   *)
(* root directory <<>> always exists.                                      *)

\* a path's components: what lies between its slashes, empty pieces dropped
NonEmpty(piece) == piece # <<>>

Components(path) == SelectSeq(split(path, <<"/">>), NonEmpty)

IsFile(f, comps) == comps \in DOMAIN f.files

IsDir(f, comps) == comps = <<>> \/ comps \in f.dirs

\* what reading the file at path gives
ReadFile(f, path) ==
    IF IsFile(f, Components(path)) /\ path[Len(path)] # "/"
    THEN Ok(f.files[Components(path)])
    ELSE Raise("OSError")

\* line 101: os.makedirs(file_path_dir, exist_ok=True)
makedirs(f, path) ==
    LET comps == Components(path)
        blocked == {k \in 1..Len(comps) : IsFile(f, Take(comps, k))}
    IN  IF blocked # {}
        THEN [fs |-> f,
              ret |-> Raise(IF Len(comps) \in blocked /\ Cardinality(blocked) = 1
                            THEN "FileExistsError" ELSE "NotADirectoryError")]
        ELSE [fs |-> [f EXCEPT !.dirs = @ \cup {Take(comps, k) : k \in 1..Len(comps)}],
              ret |-> Ok(None)]

\* the content a write in mode "a" leaves
WriteFile_append(f, comps, code) ==
    IF IsFile(f, comps)
    THEN [f EXCEPT !.files = (comps :> (f.files[comps] \o code)) @@ @]
    ELSE [f EXCEPT !.files = (comps :> code) @@ @]

\* lines 103-104: mode "w" truncates, f.write(file["code"]) is all the file holds
WriteFile(f, comps, code) == [f EXCEPT !.files = (comps :> code) @@ @]

\* lines 103-104: with open(file_path, "w") as f: f.write(file["code"])
open_write(f, path, code) ==
    LET comps == Components(path)
        slash == path[Len(path)] = "/"
    IN  IF IsDir(f, comps) THEN [fs |-> f, ret |-> Raise("IsADirectoryError")]
        ELSE IF slash THEN
            [fs |-> f, ret |-> Raise(IF IsFile(f, comps) THEN "NotADirectoryError"
                                     ELSE "IsADirectoryError")]
        ELSE IF ~IsDir(f, Take(comps, Len(comps) - 1))
        THEN [fs |-> f, ret |-> Raise("FileNotFoundError")]
        ELSE [fs |-> WriteFile(f, comps, code), ret |-> Ok(None)]

----------------------------------------------------------------------------
(* save_code_to_project (lines 84-106) and get_project_path (108-113).     *)

\* self.project_dir (line 19): Config().get_projects_dir()
project_dir == <<"/", "r">>

UpperCase == <<"A", "B", "C", "D", "E", "F", "G", "H", "I", "J", "K", "L", "M",
               "N", "O", "P", "Q", "R", "S", "T", "U", "V", "W", "X", "Y", "Z">>

LowerCase == <<"a", "b", "c", "d", "e", "f", "g", "h", "i", "j", "k", "l", "m",
               "n", "o", "p", "q", "r", "s", "t", "u", "v", "w", "x", "y", "z">>

\* s.lower()
lower(s) ==
    [i \in 1..Len(s) |->
        IF \E k \in 1..Len(UpperCase) : UpperCase[k] = s[i]
        THEN LowerCase[CHOOSE k \in 1..Len(UpperCase) : UpperCase[k] = s[i]]
        ELSE s[i]]

\* s.replace(old, new) for one-character old and new
replace(s, old, new) == [i \in 1..Len(s) |-> IF s[i] = old THEN new ELSE s[i]]

\* lines 96, 112: project_name.lower().replace(" ", "-")
Slug(project_name) == replace(lower(project_name), " ", "-")

\* line 99: f"{self.project_dir}/{project_name}/{file['file']}"
FilePath(slug, file) == project_dir \o <<"/">> \o slug \o <<"/">> \o file.file

\* line 100: file_path[:file_path.rfind("/")]
FilePathDir(file_path) == slice_to(file_path, rfind(file_path, <<"/">>))

\* lines 98-104: the loop; st holds fs, file_path_dir and what was raised
RECURSIVE SaveFiles(_, _, _)
SaveFiles(st, slug, response) ==
    IF response = <<>> THEN st
    ELSE LET file_path == FilePath(slug, Head(response))
             file_path_dir == FilePathDir(file_path)
             made == makedirs(st.fs, file_path_dir)
             written == open_write(made.fs, file_path, Head(response).code)
         IN  IF made.ret.kind = "raise"
             THEN [fs |-> made.fs, file_path_dir |-> file_path_dir, ret |-> made.ret]
             ELSE IF written.ret.kind = "raise"
             THEN [fs |-> written.fs, file_path_dir |-> file_path_dir,
                   ret |-> written.ret]
             ELSE SaveFiles([fs |-> written.fs, file_path_dir |-> file_path_dir,
                             ret |-> Ok(file_path_dir)],
                            slug, Tail(response))

\* lines 95-106: the filesystem the call leaves, and what it yields
save_code_to_project(f, response, project_name) ==
    SaveFiles([fs |-> f, file_path_dir |-> None, ret |-> Ok(None)],
              Slug(project_name), response)

\* lines 112-113
get_project_path(project_name) == project_dir \o <<"/">> \o Slug(project_name)

----------------------------------------------------------------------------
(* SpecSave: save_code_to_project applied to a list of files, on a         *)
(* filesystem that may hold files and directories of the project already.  *)

MaxSaved == 2

ProjectNames == {<<"M", "y", " ", "P">>, <<"m", "y", "-", "p">>, <<"q">>}

SavePaths == {<<"c">>, <<"a">>, <<"a", "/", "b">>, <<"a", "/", "/", "b">>, <<>>}

SaveContents == {<<"x">>, <<"y", "y">>}

SaveLists ==
    UNION {[1..n -> [file : SavePaths, code : SaveContents]] : n \in 0..MaxSaved}

NoFiles == [c \in {} |-> <<>>]

ProjectDirs == {<<<<"r">>>>, <<<<"r">>, <<"m", "y", "-", "p">>>>}

InitialFilesystems ==
    {[files |-> NoFiles, dirs |-> {}],
     [files |-> (<<<<"r">>, <<"m", "y", "-", "p">>, <<"c">>>> :> <<"o", "l", "d">>),
      dirs |-> ProjectDirs],
     [files |-> (<<<<"r">>, <<"m", "y", "-", "p">>, <<"a">>>> :> <<"o", "l", "d">>),
      dirs |-> ProjectDirs],
     [files |-> NoFiles,
      dirs |-> ProjectDirs \cup {<<<<"r">>, <<"m", "y", "-", "p">>, <<"c">>>>}]}

InitSave ==
    /\ op = "init"
    /\ arg \in SaveLists
    /\ local = <<>>
    /\ project \in ProjectNames
    /\ fs \in InitialFilesystems
    /\ store = <<>>
    /\ script = <<>>
    /\ calls = <<>>

SaveCodeToProject ==
    /\ op = "init"
    /\ op' = "save_code_to_project"
    /\ LET done == save_code_to_project(fs, arg, project)
       IN  /\ fs' = done.fs
           /\ local' = [file_path_dir |-> done.file_path_dir, ret |-> done.ret]
    /\ UNCHANGED <<arg, project, store, script, calls>>

NextSave == SaveCodeToProject

SpecSave == InitSave /\ [][NextSave]_vars

\* projectName lowercased with spaces replaced by hyphens, name by name
ExpectedSlug(name) ==
    CASE name = <<"M", "y", " ", "P">> -> <<"m", "y", "-", "p">>
      [] name = <<"m", "y", "-", "p">> -> <<"m", "y", "-", "p">>
      [] name = <<"q">> -> <<"q">>

\* <projectsRootDir>/<slug>/<p>
ExpectedPath(name, p) == <<"/", "r", "/">> \o ExpectedSlug(name) \o <<"/">> \o p

\* what precedes the last slash of a path
ContainingDir(path) == Take(path, Greatest(Offsets(path, <<"/">>)))

Saved == op = "save_code_to_project"

----------------------------------------------------------------------------
(* AgentState (src/state.py, not among the sources): the snapshots of each *)
(* project, an append-only sequence read at its end.                       *)

\* AgentState().new_state(): a fresh default snapshot
new_state ==
    [browser_session |-> "fresh",
     internal_monologue |-> <<>>,
     terminal_session |-> [title |-> <<>>, command |-> <<>>, output |-> <<>>]]

\* AgentState().get_latest_state(project_name)
get_latest_state(st, project_name) == st[project_name][Len(st[project_name])]

\* AgentState().add_to_current_state(project_name, state)
add_to_current_state(st, project_name, state) ==
    [st EXCEPT ![project_name] = Append(@, state)]

----------------------------------------------------------------------------
(* emulate_code_writing (lines 119-143).                                   *)

\* line 138: the fixed status text, six CJK characters and three dots
Monologue == <<"U+6B63", "U+5728", "U+5BEB", "U+7A0B", "U+5F0F", "U+78BC", ".", ".", ".">>

\* line 139: the title's prefix, two CJK characters and a space
TitlePrefix == <<"U+7DE8", "U+8F2F", " ">>

\* EmulateStep leaving the fresh snapshot's browser_session in place
EmulateStep_freshBrowser(st, project_name, current_file) ==
    add_to_current_state(st, project_name,
        [new_state EXCEPT
            !.internal_monologue = Monologue,
            !.terminal_session =
                [title |-> TitlePrefix \o current_file.file,
                 command |-> <<"v", "i", "m", " ">> \o current_file.file,
                 output |-> current_file.code]])

\* lines 132-142: one turn of the loop
EmulateStep(st, project_name, current_file) ==
    LET current_state == get_latest_state(st, project_name)
    IN  add_to_current_state(st, project_name,
            [new_state EXCEPT
                !.browser_session = current_state.browser_session,
                !.internal_monologue = Monologue,
                !.terminal_session =
                    [title |-> TitlePrefix \o current_file.file,
                     command |-> <<"v", "i", "m", " ">> \o current_file.file,
                     output |-> current_file.code]])

\* lines 131-143: the store the loop leaves (time.sleep changes no state)
RECURSIVE emulate_code_writing(_, _, _)
emulate_code_writing(st, code_set, project_name) ==
    IF code_set = <<>> THEN st
    ELSE emulate_code_writing(EmulateStep(st, project_name, Head(code_set)),
                              Tail(code_set), project_name)

----------------------------------------------------------------------------
(* SpecEmit: emulate_code_writing applied to a list of files, on a store   *)
(* that holds one or two snapshots of every project.                       *)

MaxEmitted == 2

BrowserSessions == {"b1", "b2"}

Snapshots == {[new_state EXCEPT !.browser_session = b] : b \in BrowserSessions}

EmitLists ==
    UNION {[1..n -> [file : {<<"a">>, <<"b">>}, code : SaveContents]] :
             n \in 0..MaxEmitted}

InitEmit ==
    /\ op = "init"
    /\ arg \in EmitLists
    /\ local = <<>>
    /\ project \in ProjectNames
    /\ fs = <<>>
    /\ store \in [ProjectNames -> UNION {[1..n -> Snapshots] : n \in 1..2}]
    /\ script = <<>>
    /\ calls = <<>>

EmulateCodeWriting ==
    /\ op = "init"
    /\ op' = "emulate_code_writing"
    /\ store' = emulate_code_writing(store, arg, project)
    /\ local' = [ret |-> Ok(None)]
    /\ UNCHANGED <<arg, project, fs, script, calls>>

NextEmit == EmulateCodeWriting

SpecEmit == InitEmit /\ [][NextEmit]_vars

----------------------------------------------------------------------------
(* render (lines 23-43) and execute (lines 145-179).                       *)

\* lines 37-43: the template (src/agents/coder/prompt.jinja2, not among the
\* sources) filled with the three inputs; the prompt is a function of them
render(step_by_step_plan, user_context, search_results) ==
    [step_by_step_plan |-> step_by_step_plan,
     user_context |-> user_context,
     search_results |-> search_results]

\* line 173: self.execute(step_by_step_plan, user_context, search_results).
\* execute (lines 145-151) has four parameters and no default for
\* project_name, so the call raises TypeError before it runs a statement.
execute_again(step_by_step_plan, user_context, search_results) ==
    Raise("TypeError")

\* lines 166-179: the locals of execute when it returns or raises, the store
\* it leaves and the responses the client has left; response is what
\* self.llm.inference(prompt) returns, the next response of the script
execute(st, responses, step_by_step_plan, user_context, search_results, project_name) ==
    LET prompt == render(step_by_step_plan, user_context, search_results)
        response == Head(responses)
        valid_response == validate_response(response)
        out == [prompt |-> prompt, response |-> response,
                valid_response |-> valid_response, store |-> st,
                script |-> Tail(responses), ret |-> valid_response]
    IN  IF valid_response.kind = "raise" THEN out
        ELSE IF valid_response.val = <<>>
        THEN [out EXCEPT !.ret =
                 execute_again(step_by_step_plan, user_context, search_results)]
        ELSE [out EXCEPT !.store =
                 emulate_code_writing(st, valid_response.val, project_name)]

----------------------------------------------------------------------------
(* Spec: a Coder at work on a project. The client returns the responses of *)
(* a script in turn; each call of execute takes the next one; the caller   *)
(* may save the files execute returned.                                    *)

MaxScript == 3

Plans == {"plan1", "plan2"}

UserContext == "context"

SearchResults == "results"

ScriptResponses ==
    {<<"x", "y">>,
     Tildes \o <<NL>> \o Tildes,
     Tildes \o <<NL>> \o NoTickLine \o <<NL>> \o CodeLine \o <<NL>> \o Tildes,
     response_to_markdown_prompt(<<[file |-> <<"a">>, code |-> <<"x">>]>>),
     response_to_markdown_prompt(<<[file |-> <<"a", "/", "b">>, code |-> <<"x">>],
                                   [file |-> <<"c">>, code |-> <<"y", "y">>]>>)}

Scripts == UNION {[1..n -> ScriptResponses] : n \in 0..MaxScript}

Init ==
    /\ op = "init"
    /\ arg = <<>>
    /\ local = <<>>
    /\ project \in ProjectNames
    /\ fs = [files |-> NoFiles, dirs |-> {}]
    /\ store \in [ProjectNames -> {<<s>> : s \in Snapshots}]
    /\ script \in Scripts
    /\ calls = <<>>

Execute ==
    /\ script # <<>>
    /\ \E plan \in Plans :
        LET done == execute(store, script, plan, UserContext, SearchResults, project)
        IN  /\ op' = "execute"
            /\ arg' = [step_by_step_plan |-> plan, user_context |-> UserContext,
                       search_results |-> SearchResults, project_name |-> project]
            /\ local' = [prompt |-> done.prompt, response |-> done.response,
                         valid_response |-> done.valid_response, ret |-> done.ret]
            /\ calls' = Append(calls, done.prompt)
            /\ script' = done.script
            /\ store' = done.store
    /\ UNCHANGED <<project, fs>>

SaveReturned ==
    /\ op = "execute"
    /\ local.ret.kind = "ok"
    /\ op' = "save_code_to_project"
    /\ LET done == save_code_to_project(fs, local.ret.val, arg.project_name)
       IN  /\ fs' = done.fs
           /\ local' = [file_path_dir |-> done.file_path_dir, ret |-> done.ret]
    /\ arg' = local.ret.val
    /\ UNCHANGED <<project, store, script, calls>>

Next == Execute \/ SaveReturned

Spec == Init /\ [][Next]_vars

\* the parse of a response is falsy: malformed, or an empty list of files
FalsyResponse(response) ==
    validate_response(response).kind = "raise" \/ validate_response(response).val = <<>>

\* the client's next k responses are falsy and the one after is well formed
FalsyThenWellFormed(responses, k) ==
    /\ k + 1 <= Len(responses)
    /\ \A i \in 1..k : FalsyResponse(responses[i])
    /\ ~FalsyResponse(responses[k + 1])

(* C2: when the client returns k >= 1 responses whose parse is falsy and   *)
(* then a well-formed one, execute returns the parse of the well-formed    *)
(* response, having invoked the client exactly k + 1 times, each time with *)
(* the prompt of the same plan, user context and search results.           *)
C2_RetryReturnsWellFormed ==
    [][\A k \in 1..Len(script) :
        (op' = "execute" /\ FalsyThenWellFormed(script, k)) =>
            /\ local'.ret = validate_response(script[k + 1])
            /\ Len(calls') = Len(calls) + k + 1
            /\ \A i \in (Len(calls) + 1)..Len(calls') :
                   calls'[i] = render(arg'.step_by_step_plan, arg'.user_context,
                                      arg'.search_results)]_vars

(* C4: whenever execute returns a non-empty list of files, every file of   *)
(* the list has been saved: <root>/<slug>/<path> holds its content.        *)
C4_ReturnedFilesSaved ==
    (op = "execute" /\ local.ret.kind = "ok") =>
        \A i \in 1..Len(local.ret.val) :
            ReadFile(fs, ExpectedPath(arg.project_name, local.ret.val[i].file)) =
                Ok(local.ret.val[i].code)

============================================================================
